---- MODULE Spec2Model ----
(***************************************************************************)
(* A model of the build server's concurrent build orchestration:           *)
(*   - internal/queue/queue.go : JobQueue (Enqueue, Close) and WorkerPool  *)
(*     (Start, worker, Stop, Wait), down to the Go channel operations      *)
(*     (buffered channel, select, close, goroutines parked on a channel);  *)
(*   - services pipeline (ExecuteBuild and its stage bookkeeping).         *)
(* Spec      : the queue and the pool, the handler being any function      *)
(*             that returns nil, returns an error or panics.               *)
(* SpecLive  : the queue and the pool as main runs them (Start, Close,     *)
(*             Wait; Stop is never called, handlers return), with the      *)
(*             fairness of the Go scheduler.                               *)
(* SpecBuild : ExecuteBuild, one execution per deployment record.          *)
(* SpecRerun : ExecuteBuild on records an earlier run may have completed.  *)
(* SpecLog   : BuildLogger.GetLogsWithSizeLimit on the logs of a build.    *)
(* SpecShared: concurrent builds on the pipeline's one BuildLogger.        *)
(* SpecEcr   : sequential calls of ECRService.GetOrCreateRepository.       *)
(* SpecUri   : the image URI a fully successful build records.             *)
(* SpecPush  : ECRService.PushImage (login, tag loop, push loop).          *)
(* SpecLogin : ECRService.loginToECR on the answers of the registry.       *)
(* SpecRace  : GetOrCreateRepository of builds on different workers.       *)
(***************************************************************************)
EXTENDS Integers, Sequences, FiniteSets, TLC

\* ---------------------------------------------------------------- bounds
NumJobs == 3
QueueCap == 2
NumWorkers == 2
NumClosers == 2
NumBuilds == 2
MaxLogLen == 3
MaxAppends == 2
MaxEcrCalls == 3
MaxHashLen == 9
MaxTags == 3
MaxCredLen == 2

Producers == 1..NumJobs
Workers == 1..NumWorkers
Closers == 1..NumClosers
Builds == 1..NumBuilds

VARIABLES
    jobs,         \* jq.jobs: the buffered jobs, oldest first
    jobsClosed,   \* close(jq.jobs) has run
    doneClosed,   \* close(jq.done) has run
    mu,           \* jq.mu: 0 when free, else the closer holding it
    sendq,        \* producers parked in Enqueue's select, oldest first
    recvq,        \* workers parked in worker's select, oldest first
    epc,          \* per producer: "idle", "parked", or how Enqueue ended
    afterClose,   \* per producer: its Enqueue began after a Close() had returned
    wokenByClose, \* producers that were parked when close(jq.done) ran
    cpc,          \* per closer: position in Close
    closeOps,     \* how many times close() ran on jq.done and on jq.jobs
    started,      \* Start has run
    wg,           \* wp.wg counter
    wpDone,       \* close(wp.done) has run
    wpc,          \* per worker: position in worker
    wjob,         \* per worker: the job handed to the handler (0: none)
    hres,         \* per worker: what its last handler call returned
    exitWhy,      \* per worker: why it left the loop
    waitpc,       \* the caller of Wait
    stoppc,       \* the caller of Stop
    crashed,      \* the process died of an unrecovered panic
    accepted,     \* jobs whose send succeeded, in order
    received,     \* <<job, worker>> in the order jobs left the channel
    finished,     \* jobs whose handler has returned
    bpc,          \* per build: position in ExecuteBuild
    dep,          \* per build: the in-memory deployment
    store,        \* per build: the persisted deployment record
    ret,          \* per build: what ExecuteBuild returned
    job,          \* per build: the job's inputs
    workdir,      \* per build: the working directory getTempDir names exists or not
    issued,       \* per build: the deployment last handed to updateDeployment
    ran,          \* per build: the stages whose work was started, in order
    logs,         \* bl.logs of the pipeline's BuildLogger, oldest entry first
    view,         \* what the last GetLogsWithSizeLimit call returned
    viewed,       \* GetLogsWithSizeLimit has been called
    lpc,          \* per build: position of its ExecuteBuild among the logger calls
    appended,     \* per build: the entries its ExecuteBuild has logged, in order
    blogs,        \* per build: the BuildLogs last written to its deployment record
    mcpEntry,     \* per build: which of its entries reports a failed MCP update (0: none)
    repos,        \* the names of the repositories that exist in the registry
    ecrCalls,     \* the calls of GetOrCreateRepository so far, oldest first
    pushIn,       \* the registry's account and region and the job of one build
    imageUri,     \* the ImageURI that build's final write carries ("none" before it)
    pushArgs,     \* per build: the arguments of its PushImage call
    ppc,          \* per build: position in PushImage
    pidx,         \* per build: index of the tag the current loop is at
    pops,         \* per build: the docker commands PushImage has run, with outcome
    pres,         \* per build: what PushImage returned
    authIn,       \* what GetAuthorizationToken answers to one loginToECR call
    loginOut,     \* what that loginToECR call did and returned
    rserver,      \* per build: the server of its stageCreateECR
    rpc,          \* per build: position in GetOrCreateRepository
    rfault,       \* per build: a registry call of its own failed (throttling, network)
    rres          \* per build: what GetOrCreateRepository returned

queueVars == <<jobs, jobsClosed, doneClosed, mu, sendq, recvq, epc, afterClose,
               wokenByClose, cpc, closeOps>>
poolVars == <<started, wg, wpDone, wpc, wjob, hres, exitWhy, waitpc, stoppc,
              crashed, accepted, received, finished>>
logVars == <<logs, view, viewed, lpc, appended, blogs, mcpEntry>>
execVars == <<bpc, dep, store, ret, job, workdir, issued, ran>>
dockerVars == <<pushArgs, ppc, pidx, pops, pres>>
loginVars == <<authIn, loginOut>>
raceVars == <<rserver, rpc, rfault, rres>>
regVars == <<dockerVars, loginVars, raceVars>>
svcVars == <<repos, ecrCalls, pushIn, imageUri, regVars>>
buildVars == <<execVars, logVars, svcVars>>
vars == <<queueVars, poolVars, buildVars>>

\* ------------------------------------------------------------- helpers
SeqToSet(s) == {s[i] : i \in 1..Len(s)}

RECURSIVE SetCard(_)
SetCard(S) == IF S = {} THEN 0 ELSE 1 + SetCard(S \ {CHOOSE x \in S : TRUE})

\* ============================================================ JobQueue

\* NewJobQueue: an open, empty channel of the given capacity and an open done
InitQueue ==
    /\ jobs = <<>>
    /\ jobsClosed = FALSE
    /\ doneClosed = FALSE
    /\ mu = 0
    /\ sendq = <<>>
    /\ recvq = <<>>
    /\ epc = [p \in Producers |-> "idle"]
    /\ afterClose = [p \in Producers |-> FALSE]
    /\ wokenByClose = {}
    /\ cpc = [c \in Closers |-> "idle"]
    /\ closeOps = [done |-> 0, jobs |-> 0]

\* Jobs are numbered in the order their Enqueue calls reach the select, closers in
\* the order they take jq.mu (both are interchangeable otherwise)
NextCaller(p) == IF p = 1 THEN TRUE ELSE epc[p - 1] # "idle"
NextCloser(c) == IF c = 1 THEN TRUE ELSE cpc[c - 1] # "idle"

\* Some call of Close() has returned
CloseReturned == \E c \in Closers : cpc[c] = "returned"

\* Mutant of BufferHasRoom: the buffer takes any number of jobs
BufferHasRoomAlways(q) == TRUE

\* make(chan *BuildJob, bufferSize): the buffer holds fewer jobs than its capacity
BufferHasRoom(q) == Len(q) < QueueCap

\* select case `jq.jobs <- job` can proceed: a receiver waits, the buffer has
\* room, or the channel is closed (the send then panics)
SendReady == recvq # <<>> \/ BufferHasRoom(jobs) \/ jobsClosed

\* select case `<-jq.done` can proceed
DoneReady == doneClosed

\* A receive from the buffered channel: the oldest value, and what stays buffered
ChanRecv(q) == [val |-> Head(q), rest |-> Tail(q)]

\* Mutant of ChanSend: the value is put in front of those buffered
ChanSendFront(q, j) == <<j>> \o q

\* A send into the buffered channel: the value goes behind those buffered
ChanSend(q, j) == Append(q, j)

\* Enqueue, select case `jq.jobs <- job` on an open channel: the job goes to the
\* longest-parked worker if one waits, else to the tail of the buffer; returns nil
EnqueueSend(p) ==
    /\ ~crashed
    /\ epc[p] = "idle"
    /\ NextCaller(p)
    /\ ~jobsClosed
    /\ recvq # <<>> \/ BufferHasRoom(jobs)
    /\ IF recvq # <<>>
       THEN /\ wpc' = [wpc EXCEPT ![Head(recvq)] = "handling"]
            /\ wjob' = [wjob EXCEPT ![Head(recvq)] = p]
            /\ received' = Append(received, <<p, Head(recvq)>>)
            /\ recvq' = Tail(recvq)
            /\ jobs' = jobs
       ELSE /\ jobs' = ChanSend(jobs, p)
            /\ UNCHANGED <<wpc, wjob, received, recvq>>
    /\ accepted' = Append(accepted, p)
    /\ epc' = [epc EXCEPT ![p] = "nil"]
    /\ afterClose' = [afterClose EXCEPT ![p] = CloseReturned]
    /\ UNCHANGED <<jobsClosed, doneClosed, mu, sendq, wokenByClose, cpc, closeOps>>
    /\ UNCHANGED <<started, wg, wpDone, hres, exitWhy, waitpc, stoppc, crashed, finished>>
    /\ UNCHANGED buildVars

\* Enqueue, select case `jq.jobs <- job` chosen on a closed channel: the send
\* panics ("send on closed channel")
EnqueuePanic(p) ==
    /\ ~crashed
    /\ epc[p] = "idle"
    /\ NextCaller(p)
    /\ jobsClosed
    /\ epc' = [epc EXCEPT ![p] = "panic"]
    /\ afterClose' = [afterClose EXCEPT ![p] = CloseReturned]
    /\ UNCHANGED <<jobs, jobsClosed, doneClosed, mu, sendq, recvq, wokenByClose, cpc, closeOps>>
    /\ UNCHANGED <<poolVars, buildVars>>

\* Enqueue, select case `<-jq.done`: returns ErrQueueClosed
EnqueueClosed(p) ==
    /\ ~crashed
    /\ epc[p] = "idle"
    /\ NextCaller(p)
    /\ DoneReady
    /\ epc' = [epc EXCEPT ![p] = "closed"]
    /\ afterClose' = [afterClose EXCEPT ![p] = CloseReturned]
    /\ UNCHANGED <<jobs, jobsClosed, doneClosed, mu, sendq, recvq, wokenByClose, cpc, closeOps>>
    /\ UNCHANGED <<poolVars, buildVars>>

\* Enqueue, no select case can proceed: the goroutine parks on both channels
EnqueuePark(p) ==
    /\ ~crashed
    /\ epc[p] = "idle"
    /\ NextCaller(p)
    /\ ~SendReady
    /\ ~DoneReady
    /\ epc' = [epc EXCEPT ![p] = "parked"]
    /\ sendq' = Append(sendq, p)
    /\ afterClose' = [afterClose EXCEPT ![p] = CloseReturned]
    /\ UNCHANGED <<jobs, jobsClosed, doneClosed, mu, recvq, wokenByClose, cpc, closeOps>>
    /\ UNCHANGED <<poolVars, buildVars>>

\* The deployment whose job submission p enqueues. InitiateBuild checks that
\* the record exists and belongs to the user, not its status, so it enqueues a
\* job each time it is called: the first two submissions are two calls for the
\* same (serverId, deploymentId), the others are for deployments of their own
DeploymentOf(p) == IF p <= 2 THEN 1 ELSE p

\* InitiateBuild once h.jobQueue.Enqueue(job) has returned r (nil or
\* ErrQueueClosed): the result is dropped and 202 is answered
InitiateBuildAnswer(r) == "202 Build initiated successfully"

\* Close: jq.mu.Lock()
CloseLock(c) ==
    /\ ~crashed
    /\ cpc[c] = "idle"
    /\ NextCloser(c)
    /\ mu = 0
    /\ mu' = c
    /\ cpc' = [cpc EXCEPT ![c] = "locked"]
    /\ UNCHANGED <<jobs, jobsClosed, doneClosed, sendq, recvq, epc, afterClose, wokenByClose, closeOps>>
    /\ UNCHANGED <<poolVars, buildVars>>

\* Mutant of AlreadyClosed: Close does not look at jq.done before closing
AlreadyClosedNever == FALSE

\* Close's select, case `<-jq.done`: the queue was closed before
AlreadyClosed == doneClosed

\* Close, already closed: return (the deferred Unlock runs)
CloseAlready(c) ==
    /\ ~crashed
    /\ cpc[c] = "locked"
    /\ AlreadyClosed
    /\ mu' = 0
    /\ cpc' = [cpc EXCEPT ![c] = "returned"]
    /\ UNCHANGED <<jobs, jobsClosed, doneClosed, sendq, recvq, epc, afterClose, wokenByClose, closeOps>>
    /\ UNCHANGED <<poolVars, buildVars>>

\* Mutant of CloseDone: jq.done is closed without releasing the producers parked
\* in Enqueue (as if the jobs channel were closed first)
CloseDoneKeepsParked(c) ==
    /\ ~crashed
    /\ cpc[c] = "locked"
    /\ ~AlreadyClosed
    /\ closeOps' = [closeOps EXCEPT !.done = @ + 1]
    /\ doneClosed' = TRUE
    /\ cpc' = [cpc EXCEPT ![c] = "closing"]
    /\ UNCHANGED <<jobs, jobsClosed, mu, sendq, recvq, epc, afterClose, wokenByClose>>
    /\ UNCHANGED <<poolVars, buildVars>>

\* Close, default case, close(jq.done): every producer parked in Enqueue's select
\* is released through its `<-jq.done` case; closing a closed channel panics
CloseDone(c) ==
    /\ ~crashed
    /\ cpc[c] = "locked"
    /\ ~AlreadyClosed
    /\ closeOps' = [closeOps EXCEPT !.done = @ + 1]
    /\ IF doneClosed
       THEN /\ cpc' = [cpc EXCEPT ![c] = "panic"]
            /\ mu' = 0
            /\ UNCHANGED <<doneClosed, epc, sendq, wokenByClose>>
       ELSE /\ doneClosed' = TRUE
            /\ epc' = [p \in Producers |-> IF epc[p] = "parked" THEN "closed" ELSE epc[p]]
            /\ wokenByClose' = wokenByClose \cup SeqToSet(sendq)
            /\ sendq' = <<>>
            /\ cpc' = [cpc EXCEPT ![c] = "closing"]
            /\ mu' = mu
    /\ UNCHANGED <<jobs, jobsClosed, recvq, afterClose>>
    /\ UNCHANGED <<poolVars, buildVars>>

\* Close, close(jq.jobs), then return (the deferred Unlock runs): every parked
\* worker is released with ok = false, a producer still parked on the send panics
CloseJobs(c) ==
    /\ ~crashed
    /\ cpc[c] = "closing"
    /\ closeOps' = [closeOps EXCEPT !.jobs = @ + 1]
    /\ mu' = 0
    /\ IF jobsClosed
       THEN /\ cpc' = [cpc EXCEPT ![c] = "panic"]
            /\ UNCHANGED <<jobsClosed, epc, sendq, recvq, wpc>>
       ELSE /\ jobsClosed' = TRUE
            /\ cpc' = [cpc EXCEPT ![c] = "returned"]
            /\ wpc' = [w \in Workers |-> IF wpc[w] = "parked" THEN "sawClosed" ELSE wpc[w]]
            /\ recvq' = <<>>
            /\ epc' = [p \in Producers |-> IF epc[p] = "parked" THEN "panic" ELSE epc[p]]
            /\ sendq' = <<>>
    /\ UNCHANGED <<jobs, doneClosed, afterClose, wokenByClose>>
    /\ UNCHANGED <<started, wg, wpDone, wjob, hres, exitWhy, waitpc, stoppc, crashed,
                   accepted, received, finished>>
    /\ UNCHANGED buildVars

\* ========================================================== WorkerPool

\* NewWorkerPool: no worker yet, wp.done open
InitPool ==
    /\ started = FALSE
    /\ wg = 0
    /\ wpDone = FALSE
    /\ wpc = [w \in Workers |-> "new"]
    /\ wjob = [w \in Workers |-> 0]
    /\ hres = [w \in Workers |-> "none"]
    /\ exitWhy = [w \in Workers |-> "none"]
    /\ waitpc = "idle"
    /\ stoppc = "idle"
    /\ crashed = FALSE
    /\ accepted = <<>>
    /\ received = <<>>
    /\ finished = {}

\* Worker w is at the select of its loop. The spawned workers are numbered in the
\* order they first reach it (they are interchangeable otherwise)
AtSelect(w) ==
    \/ wpc[w] = "select"
    \/ wpc[w] = "spawned" /\ (IF w = 1 THEN TRUE ELSE wpc[w - 1] # "spawned")

\* Mutant of Start: the workers are spawned without wg.Add(1)
StartNoAdd ==
    /\ ~crashed
    /\ ~started
    /\ started' = TRUE
    /\ wpc' = [w \in Workers |-> "spawned"]
    /\ UNCHANGED <<wg, wpDone, wjob, hres, exitWhy, waitpc, stoppc, crashed, accepted,
                   received, finished>>
    /\ UNCHANGED <<queueVars, buildVars>>

\* Start: wg.Add(1) and `go wp.worker(handler)` for each of the wp.workers workers
Start ==
    /\ ~crashed
    /\ ~started
    /\ started' = TRUE
    /\ wg' = wg + NumWorkers
    /\ wpc' = [w \in Workers |-> "spawned"]
    /\ UNCHANGED <<wpDone, wjob, hres, exitWhy, waitpc, stoppc, crashed, accepted,
                   received, finished>>
    /\ UNCHANGED <<queueVars, buildVars>>

\* worker's select, case `job, ok := <-wp.jobs` with a buffered job: the oldest
\* job leaves the buffer (the longest-parked producer's job takes the freed slot
\* and its Enqueue returns nil) and the handler is called with it
WorkerRecvJob(w) ==
    /\ ~crashed
    /\ AtSelect(w)
    /\ Len(jobs) > 0
    /\ IF sendq # <<>>
       THEN /\ jobs' = ChanSend(ChanRecv(jobs).rest, Head(sendq))
            /\ epc' = [epc EXCEPT ![Head(sendq)] = "nil"]
            /\ accepted' = Append(accepted, Head(sendq))
            /\ sendq' = Tail(sendq)
       ELSE /\ jobs' = ChanRecv(jobs).rest
            /\ UNCHANGED <<epc, accepted, sendq>>
    /\ wpc' = [wpc EXCEPT ![w] = "handling"]
    /\ wjob' = [wjob EXCEPT ![w] = ChanRecv(jobs).val]
    /\ received' = Append(received, <<ChanRecv(jobs).val, w>>)
    /\ UNCHANGED <<jobsClosed, doneClosed, mu, recvq, afterClose, wokenByClose, cpc, closeOps>>
    /\ UNCHANGED <<started, wg, wpDone, hres, exitWhy, waitpc, stoppc, crashed, finished>>
    /\ UNCHANGED buildVars

\* Mutant of WorkerRecvClosed: the worker leaves as soon as the channel is
\* closed, whatever is still buffered
WorkerLeavesOnClose(w) ==
    /\ ~crashed
    /\ AtSelect(w)
    /\ jobsClosed
    /\ wpc' = [wpc EXCEPT ![w] = "sawClosed"]
    /\ UNCHANGED <<started, wg, wpDone, wjob, hres, exitWhy, waitpc, stoppc, crashed,
                   accepted, received, finished>>
    /\ UNCHANGED <<queueVars, buildVars>>

\* worker's select, case `job, ok := <-wp.jobs` on a closed, drained channel: ok = false
WorkerRecvClosed(w) ==
    /\ ~crashed
    /\ AtSelect(w)
    /\ Len(jobs) = 0
    /\ jobsClosed
    /\ wpc' = [wpc EXCEPT ![w] = "sawClosed"]
    /\ UNCHANGED <<started, wg, wpDone, wjob, hres, exitWhy, waitpc, stoppc, crashed,
                   accepted, received, finished>>
    /\ UNCHANGED <<queueVars, buildVars>>

\* worker's select, case `<-wp.done`
WorkerStopSignal(w) ==
    /\ ~crashed
    /\ AtSelect(w)
    /\ wpDone
    /\ wpc' = [wpc EXCEPT ![w] = "sawStop"]
    /\ UNCHANGED <<started, wg, wpDone, wjob, hres, exitWhy, waitpc, stoppc, crashed,
                   accepted, received, finished>>
    /\ UNCHANGED <<queueVars, buildVars>>

\* worker's select, no case can proceed: the goroutine parks on both channels
WorkerPark(w) ==
    /\ ~crashed
    /\ AtSelect(w)
    /\ Len(jobs) = 0
    /\ ~jobsClosed
    /\ ~wpDone
    /\ wpc' = [wpc EXCEPT ![w] = "parked"]
    /\ recvq' = Append(recvq, w)
    /\ UNCHANGED <<jobs, jobsClosed, doneClosed, mu, sendq, epc, afterClose, wokenByClose,
                   cpc, closeOps>>
    /\ UNCHANGED <<started, wg, wpDone, wjob, hres, exitWhy, waitpc, stoppc, crashed,
                   accepted, received, finished>>
    /\ UNCHANGED buildVars

\* worker: `return` out of the loop, then the deferred wp.wg.Done()
WorkerExit(w) ==
    /\ ~crashed
    /\ wpc[w] \in {"sawClosed", "sawStop"}
    /\ exitWhy' = [exitWhy EXCEPT ![w] = IF wpc[w] = "sawClosed" THEN "closed" ELSE "stop"]
    /\ wpc' = [wpc EXCEPT ![w] = "exited"]
    /\ wg' = wg - 1
    /\ UNCHANGED <<started, wpDone, wjob, hres, waitpc, stoppc, crashed, accepted,
                   received, finished>>
    /\ UNCHANGED <<queueVars, buildVars>>

\* Mutant of AfterHandler: the worker returns when the handler returned an error
AfterHandlerExitOnError(w, r) == IF r = "err" THEN "exited" ELSE "select"

\* What the worker does once handler(job) has returned r (nil or an error):
\* it logs the outcome and goes round the loop again
AfterHandler(w, r) == "select"

\* The Done channel of the ctx the handler passes to ExecuteBuild is closed:
\* main makes it with context.Background() and nothing ever cancels it
CtxDone == FALSE

\* worker: handler(job) returns nil ("ok") or an error ("err")
HandlerReturn(w) ==
    /\ ~crashed
    /\ wpc[w] = "handling"
    /\ \E r \in {"ok", "err"} :
         /\ hres' = [hres EXCEPT ![w] = r]
         /\ wpc' = [wpc EXCEPT ![w] = AfterHandler(w, r)]
         /\ wg' = IF AfterHandler(w, r) = "exited" THEN wg - 1 ELSE wg
    /\ finished' = finished \cup {wjob[w]}
    /\ wjob' = [wjob EXCEPT ![w] = 0]
    /\ UNCHANGED <<started, wpDone, exitWhy, waitpc, stoppc, crashed, accepted, received>>
    /\ UNCHANGED <<queueVars, buildVars>>

\* worker: handler(job) panics (ExecuteBuild slices job.CommitHash[:8]); nothing
\* recovers, so the Go runtime ends the process and every other goroutine with it
HandlerPanic(w) ==
    /\ ~crashed
    /\ wpc[w] = "handling"
    /\ crashed' = TRUE
    /\ wpc' = [v \in Workers |->
                 IF v = w THEN "panicked"
                 ELSE IF wpc[v] = "exited" THEN "exited" ELSE "killed"]
    /\ UNCHANGED <<started, wg, wpDone, wjob, hres, exitWhy, waitpc, stoppc, accepted,
                   received, finished>>
    /\ UNCHANGED <<queueVars, buildVars>>

\* Stop: close(wp.done): every parked worker is released through its `<-wp.done` case
StopCall ==
    /\ ~crashed
    /\ stoppc = "idle"
    /\ wpDone' = TRUE
    /\ wpc' = [w \in Workers |-> IF wpc[w] = "parked" THEN "sawStop" ELSE wpc[w]]
    /\ recvq' = <<>>
    /\ stoppc' = "waiting"
    /\ UNCHANGED <<jobs, jobsClosed, doneClosed, mu, sendq, epc, afterClose, wokenByClose,
                   cpc, closeOps>>
    /\ UNCHANGED <<started, wg, wjob, hres, exitWhy, waitpc, crashed, accepted, received,
                   finished>>
    /\ UNCHANGED buildVars

\* Mutant of StopReturn: Stop returns without wp.wg.Wait()
StopReturnNoWait ==
    /\ ~crashed
    /\ stoppc = "waiting"
    /\ stoppc' = "returned"
    /\ UNCHANGED <<started, wg, wpDone, wpc, wjob, hres, exitWhy, waitpc, crashed,
                   accepted, received, finished>>
    /\ UNCHANGED <<queueVars, buildVars>>

\* Stop: wp.wg.Wait() returns once the counter is zero
StopReturn ==
    /\ ~crashed
    /\ stoppc = "waiting"
    /\ wg = 0
    /\ stoppc' = "returned"
    /\ UNCHANGED <<started, wg, wpDone, wpc, wjob, hres, exitWhy, waitpc, crashed,
                   accepted, received, finished>>
    /\ UNCHANGED <<queueVars, buildVars>>

\* Wait is called: main calls it after Start, from the shutdown goroutine, once
\* that goroutine's Close (the first closer's) has returned
WaitCall ==
    /\ ~crashed
    /\ waitpc = "idle"
    /\ started
    /\ cpc[1] = "returned"
    /\ waitpc' = "waiting"
    /\ UNCHANGED <<started, wg, wpDone, wpc, wjob, hres, exitWhy, stoppc, crashed,
                   accepted, received, finished>>
    /\ UNCHANGED <<queueVars, buildVars>>

\* Wait: wp.wg.Wait() returns once the counter is zero
WaitReturn ==
    /\ ~crashed
    /\ waitpc = "waiting"
    /\ wg = 0
    /\ waitpc' = "returned"
    /\ UNCHANGED <<started, wg, wpDone, wpc, wjob, hres, exitWhy, stoppc, crashed,
                   accepted, received, finished>>
    /\ UNCHANGED <<queueVars, buildVars>>

\* ======================================================== ExecuteBuild

\* Mutant of StageOrder: the Dockerfile is validated before the config
StageOrderDockerFirst ==
    <<"clone", "validate_docker", "validate_config", "build_image",
      "create_ecr", "push_image">>

\* The six stages in the order ExecuteBuild runs them
StageOrder == <<"clone", "validate_config", "validate_docker", "build_image",
                "create_ecr", "push_image">>
StageNames == SeqToSet(StageOrder)
StageIdx(s) == CHOOSE i \in 1..Len(StageOrder) : StageOrder[i] = s

\* Mutant of NextPos: the build is finalized without running the push stage
NextPosSkipsPush(s) ==
    IF StageIdx(s) >= Len(StageOrder) - 1 THEN "finalize" ELSE StageOrder[StageIdx(s) + 1]

\* The position after stage s
NextPos(s) ==
    IF StageIdx(s) = Len(StageOrder) THEN "finalize" ELSE StageOrder[StageIdx(s) + 1]

\* No record (Get found nothing / nothing loaded yet). StartedAt and
\* CompletedAt are the stages whose entry has that timestamp set
NoRecord ==
    [Status |-> "none", Stages |-> [s \in StageNames |-> "none"],
     Errors |-> [s \in StageNames |-> ""], ImageURI |-> "",
     StartedAt |-> {}, CompletedAt |-> {}]

\* The record as CreateDeployment writes it: a status, no stages, no image URI
QueuedRecord ==
    [Status |-> "queued", Stages |-> [s \in StageNames |-> "none"],
     Errors |-> [s \in StageNames |-> ""], ImageURI |-> "",
     StartedAt |-> {}, CompletedAt |-> {}]

\* The URI PushImage returns with a nil error: "<repoURI>:<tags[0]>", never empty
\* (one value: a deployment's branch and commit, hence its tag, do not change)
PushedImageURI == "uri"

\* The record as a completed ExecuteBuild leaves it
CompletedRecord ==
    [Status |-> "completed", Stages |-> [s \in StageNames |-> "completed"],
     Errors |-> [s \in StageNames |-> ""], ImageURI |-> PushedImageURI,
     StartedAt |-> {}, CompletedAt |-> StageNames]

\* A job and its deployment record before ExecuteBuild runs: the record exists or
\* not, the commit hash has at least 8 characters or not
InitBuild ==
    /\ bpc = [b \in Builds |-> "start"]
    /\ dep = [b \in Builds |-> NoRecord]
    /\ store \in [Builds -> {NoRecord, QueuedRecord}]
    /\ ret = [b \in Builds |-> "none"]
    /\ job \in [Builds -> [shortCommit : BOOLEAN]]
    /\ workdir = [b \in Builds |-> "absent"]
    /\ issued = [b \in Builds |-> NoRecord]
    /\ ran = [b \in Builds |-> <<>>]

\* Mutant of InitialStages: every stage starts as in_progress
InitialStagesRunning == [s \in StageNames |-> "in_progress"]

\* The stages map ExecuteBuild initializes: every stage pending
InitialStages == [s \in StageNames |-> "pending"]

\* The stages map ExecuteBuild initializes gives StartedAt (&now) to clone only
\* and CompletedAt to no stage
InitialStartedAt == {"clone"}

\* The Error fields of the stages map ExecuteBuild initializes: none set
NoErrors == [s \in StageNames |-> ""]

\* The text of the error the work of stage s returns
StageError(s) == "error of " \o s

\* markStageCompleted: the stage's entry is replaced by a completed one (no Error)
MarkStageCompleted(d, s) ==
    [d EXCEPT !.Stages[s] = "completed", !.Errors[s] = "",
              !.StartedAt = @ \ {s}, !.CompletedAt = @ \cup {s}]

\* markStageFailed: the stage's entry is replaced by a failed one holding
\* err.Error(), and the deployment status becomes failed
MarkStageFailed(d, s, err) ==
    [d EXCEPT !.Stages[s] = "failed", !.Errors[s] = err, !.Status = "failed",
              !.StartedAt = @ \ {s}, !.CompletedAt = @ \cup {s}]

\* Mutant of ReturnedError: the stage's error is wrapped before it is returned
ReturnedErrorWrapped(err) == "build failed: " \o err

\* What ExecuteBuild returns after markStageFailed(.., err): return err
ReturnedError(err) == err

\* Mutant of FinalWriteResult: a failed final write is logged and nil returned
FinalWriteResultNil(ok) == "nil"

\* What ExecuteBuild returns after the final updateDeployment: its error, else nil
FinalWriteResult(ok) == IF ok THEN "nil" ELSE "update_error"

\* The deployment last handed to updateDeployment, after a call with d
Issued(old, d) == d

\* updateDeployment / UpdateDeployment: status, stages, logs and image URI of the
\* in-memory deployment are written to the record when the write succeeds
Persist(old, d, ok) == IF ok THEN d ELSE old

\* Mutant of LookupFailed: a nil deployment is not checked for
LookupFailedOnErrorOnly(getOk, rec) == ~getOk

\* deploymentRepo.Get did not yield a record: err != nil || deployment == nil
LookupFailed(getOk, rec) == ~getOk \/ rec = NoRecord

\* ExecuteBuild up to stage 1: Get the record (absent: "deployment not found"),
\* set the stages and status in_progress, write it (a failed write is returned)
BuildInit(b) ==
    /\ bpc[b] = "start"
    /\ \E getOk \in BOOLEAN :
       IF LookupFailed(getOk, store[b])
       THEN /\ ret' = [ret EXCEPT ![b] = "not_found"]
            /\ bpc' = [bpc EXCEPT ![b] = "returned"]
            /\ UNCHANGED <<dep, store, issued>>
       ELSE \E ok \in BOOLEAN :
            /\ dep' = [dep EXCEPT ![b] =
                         [store[b] EXCEPT !.Stages = InitialStages, !.Errors = NoErrors,
                                          !.StartedAt = InitialStartedAt,
                                          !.CompletedAt = {},
                                          !.Status = "in_progress"]]
            /\ store' = [store EXCEPT ![b] = Persist(store[b], dep'[b], ok)]
            /\ issued' = [issued EXCEPT ![b] = Issued(@, dep'[b])]
            /\ ret' = [ret EXCEPT ![b] = IF ok THEN "none" ELSE "update_error"]
            /\ bpc' = [bpc EXCEPT ![b] = IF ok THEN "clone" ELSE "returned"]
    /\ UNCHANGED <<job, workdir, ran>>
    /\ UNCHANGED <<queueVars, poolVars, logVars, svcVars>>

\* getImageName / stagePushImage: job.CommitHash[:8] panics on a shorter hash
SlicePanics(b, s) == s \in {"build_image", "push_image"} /\ job[b].shortCommit

\* Mutant of AfterFailure: the error is not returned, the next stage runs
AfterFailureContinue(s) == NextPos(s)

\* Where ExecuteBuild goes after stage s failed: it returns the error
AfterFailure(s) == "returned"

\* What a failing stage leaves of the working directory: stageClone fails either
\* before git clone made the directory (no MCP server, no GitHub connection, token,
\* git clone) or after (git checkout of the commit); later stages only read it
CloneLeaves(s, created, w) ==
    IF s = "clone" THEN (IF created THEN "present" ELSE w) ELSE w

\* Mutant of WorkdirAtReturn: no deferred os.RemoveAll is registered
WorkdirAtReturnKept(s, w) == w

\* The working directory once ExecuteBuild has returned from position s: the
\* returns of stages 2 to 6 and of the final write run a deferred
\* os.RemoveAll(tempDir); the return of a failed clone runs none
WorkdirAtReturn(s, w) == IF s = "clone" THEN w ELSE "absent"

\* A stage's work succeeds: markStageCompleted, a best-effort record write
StageSucceed(b) ==
    /\ bpc[b] \in StageNames
    /\ ~SlicePanics(b, bpc[b])
    /\ \E ok \in BOOLEAN :
         /\ dep' = [dep EXCEPT ![b] = MarkStageCompleted(dep[b], bpc[b])]
         /\ store' = [store EXCEPT ![b] = Persist(store[b], dep'[b], ok)]
    /\ issued' = [issued EXCEPT ![b] = Issued(@, dep'[b])]
    /\ ran' = [ran EXCEPT ![b] = Append(@, bpc[b])]
    /\ bpc' = [bpc EXCEPT ![b] = NextPos(bpc[b])]
    /\ workdir' = [workdir EXCEPT ![b] = IF bpc[b] = "clone" THEN "present" ELSE @]
    /\ UNCHANGED <<ret, job>>
    /\ UNCHANGED <<queueVars, poolVars, logVars, svcVars>>

\* A stage's work fails: markStageFailed, a best-effort record write, return the error
StageFail(b) ==
    /\ bpc[b] \in StageNames
    /\ ~SlicePanics(b, bpc[b])
    /\ \E ok \in BOOLEAN :
         /\ dep' = [dep EXCEPT ![b] = MarkStageFailed(dep[b], bpc[b], StageError(bpc[b]))]
         /\ store' = [store EXCEPT ![b] = Persist(store[b], dep'[b], ok)]
    /\ issued' = [issued EXCEPT ![b] = Issued(@, dep'[b])]
    /\ ran' = [ran EXCEPT ![b] = Append(@, bpc[b])]
    /\ bpc' = [bpc EXCEPT ![b] = AfterFailure(bpc[b])]
    /\ ret' = [ret EXCEPT ![b] = IF AfterFailure(bpc[b]) = "returned"
                                 THEN ReturnedError(StageError(bpc[b])) ELSE ret[b]]
    /\ \E created \in BOOLEAN :
         workdir' = [workdir EXCEPT ![b] =
                       IF AfterFailure(bpc[b]) = "returned"
                       THEN WorkdirAtReturn(bpc[b], CloneLeaves(bpc[b], created, @))
                       ELSE CloneLeaves(bpc[b], created, @)]
    /\ UNCHANGED job
    /\ UNCHANGED <<queueVars, poolVars, logVars, svcVars>>

\* getImageName(job) before stage 4 slices a commit hash shorter than 8: panic
ImageNamePanic(b) ==
    /\ bpc[b] \in StageNames
    /\ SlicePanics(b, bpc[b])
    /\ bpc' = [bpc EXCEPT ![b] = "panicked"]
    /\ ret' = [ret EXCEPT ![b] = "panic"]
    /\ UNCHANGED <<dep, store, job, workdir, issued, ran>>
    /\ UNCHANGED <<queueVars, poolVars, logVars, svcVars>>

\* After stage 6: status completed, ImageURI set, the final write (its failure is returned)
Finalize(b) ==
    /\ bpc[b] = "finalize"
    /\ \E ok \in BOOLEAN :
         /\ dep' = [dep EXCEPT ![b] = [dep[b] EXCEPT !.Status = "completed", !.ImageURI = PushedImageURI]]
         /\ store' = [store EXCEPT ![b] = Persist(store[b], dep'[b], ok)]
         /\ ret' = [ret EXCEPT ![b] = FinalWriteResult(ok)]
    /\ issued' = [issued EXCEPT ![b] = Issued(@, dep'[b])]
    /\ bpc' = [bpc EXCEPT ![b] = "returned"]
    /\ workdir' = [workdir EXCEPT ![b] = WorkdirAtReturn("finalize", @)]
    /\ UNCHANGED <<job, ran>>
    /\ UNCHANGED <<queueVars, poolVars, logVars, svcVars>>

\* ========================================================= BuildLogger

\* LogSizeLimit, the per-entry size estimate and the length of the truncation
\* notice's message ("Log output exceeded size limit. Older logs truncated.")
LogSizeLimit == 400 * 1024
EntryOverhead == 135
NoticeLen == 53

\* Message lengths tried: empty, 1 KiB, half the limit, the longest message that
\* fits alone, and one byte more
MsgLens == {0, 1024, LogSizeLimit \div 2 - EntryOverhead,
            LogSizeLimit - EntryOverhead, LogSizeLimit - EntryOverhead + 1}

\* A log entry: who appended it (0: the logger itself, stage "system"), its rank
\* among that writer's entries, the length of its message
Entry(by, seq, len) == [by |-> by, seq |-> seq, len |-> len]

\* The truncation notice GetLogsWithSizeLimit appends
TruncationNotice == Entry(0, 0, NoticeLen)

\* entrySize := 135 + len(log.Message)
EntrySize(e) == EntryOverhead + e.len

\* Mutant of AfterOverflow: the loop goes on with the next entry
AfterOverflowContinue(l, i) == i + 1

\* Where the loop of GetLogsWithSizeLimit goes after an entry that does not fit:
\* break
AfterOverflow(l, i) == Len(l) + 1

\* The loop of GetLogsWithSizeLimit from entry i on, totalSize and result so far
RECURSIVE SizeLimitLoop(_, _, _, _)
SizeLimitLoop(l, i, totalSize, result) ==
    IF i > Len(l) THEN result
    ELSE IF totalSize + EntrySize(l[i]) > LogSizeLimit
         THEN SizeLimitLoop(l, AfterOverflow(l, i), totalSize, Append(result, TruncationNotice))
         ELSE SizeLimitLoop(l, i + 1, totalSize + EntrySize(l[i]), Append(result, l[i]))

\* GetLogsWithSizeLimit on a copy l of bl.logs
GetLogsWithSizeLimit(l) == SizeLimitLoop(l, 1, 0, <<>>)

\* No build has used the logger yet
NoExecLogs ==
    /\ lpc = [b \in Builds |-> "start"]
    /\ appended = [b \in Builds |-> <<>>]
    /\ blogs = [b \in Builds |-> <<>>]
    /\ mcpEntry = [b \in Builds |-> 0]

\* No logger in use
NoLogs ==
    /\ logs = <<>>
    /\ view = <<>>
    /\ viewed = FALSE
    /\ NoExecLogs

\* A logger holding up to MaxLogLen entries of one build
InitLogs ==
    /\ \E n \in 0..MaxLogLen : \E lens \in [1..n -> MsgLens] :
           logs = [i \in 1..n |-> Entry(1, i, lens[i])]
    /\ view = <<>>
    /\ viewed = FALSE
    /\ NoExecLogs

\* A call of GetLogsWithSizeLimit
LoggerView ==
    /\ ~viewed
    /\ view' = GetLogsWithSizeLimit(logs)
    /\ viewed' = TRUE
    /\ UNCHANGED <<logs, lpc, appended, blogs, mcpEntry>>
    /\ UNCHANGED <<execVars, svcVars>>
    /\ UNCHANGED <<queueVars, poolVars>>

\* ------------------------------------------- ExecuteBuild and ps.logger
\* The handler of every worker is ExecuteBuild of the one PipelineService, whose
\* logger field is the one BuildLogger made by NewPipelineService. Each logger
\* call takes bl.mu, so the calls of concurrent builds interleave one by one.

\* ExecuteBuild begins: ps.logger.Clear()
ExecClear(b) ==
    /\ lpc[b] = "start"
    /\ logs' = <<>>
    /\ lpc' = [lpc EXCEPT ![b] = "init"]
    /\ UNCHANGED <<view, viewed, appended, blogs, mcpEntry>>
    /\ UNCHANGED <<execVars, svcVars>>
    /\ UNCHANGED <<queueVars, poolVars>>

\* Normalization: deployment.BuildLogs = ps.logger.GetLogs(), written to the record
ExecInitPersist(b) ==
    /\ lpc[b] = "init"
    /\ blogs' = [blogs EXCEPT ![b] = logs]
    /\ lpc' = [lpc EXCEPT ![b] = "stage"]
    /\ UNCHANGED <<logs, view, viewed, appended, mcpEntry>>
    /\ UNCHANGED <<execVars, svcVars>>
    /\ UNCHANGED <<queueVars, poolVars>>

\* A stage logs through ps.logger.LogInfo / LogError: log() appends an entry
ExecLog(b) ==
    /\ lpc[b] = "stage"
    /\ Len(appended[b]) < MaxAppends
    /\ logs' = Append(logs, Entry(b, Len(appended[b]) + 1, 0))
    /\ appended' = [appended EXCEPT ![b] = Append(@, Entry(b, Len(@) + 1, 0))]
    /\ lpc' = [lpc EXCEPT ![b] = "mark"]
    /\ UNCHANGED <<view, viewed, blogs, mcpEntry>>
    /\ UNCHANGED <<execVars, svcVars>>
    /\ UNCHANGED <<queueVars, poolVars>>

\* updateMCPWithECRRepo failed after create_ecr was marked completed:
\* ps.logger.LogError("create_ecr", ..) appends an entry and the build goes on
\* to the push stage, whose outcome is the next write of the record
ExecMcpError(b) ==
    /\ lpc[b] = "stage"
    /\ mcpEntry[b] = 0
    /\ Len(appended[b]) < MaxAppends
    /\ logs' = Append(logs, Entry(b, Len(appended[b]) + 1, 0))
    /\ appended' = [appended EXCEPT ![b] = Append(@, Entry(b, Len(@) + 1, 0))]
    /\ mcpEntry' = [mcpEntry EXCEPT ![b] = Len(appended[b]) + 1]
    /\ lpc' = [lpc EXCEPT ![b] = "mark"]
    /\ UNCHANGED <<view, viewed, blogs>>
    /\ UNCHANGED <<execVars, svcVars>>
    /\ UNCHANGED <<queueVars, poolVars>>

\* markStageCompleted / markStageFailed: deployment.BuildLogs =
\* ps.logger.GetLogsWithSizeLimit(), written to the record
ExecPersist(b) ==
    /\ lpc[b] = "mark"
    /\ blogs' = [blogs EXCEPT ![b] = GetLogsWithSizeLimit(logs)]
    /\ lpc' = [lpc EXCEPT ![b] = IF Len(appended[b]) < MaxAppends THEN "stage" ELSE "returned"]
    /\ UNCHANGED <<logs, view, viewed, appended, mcpEntry>>
    /\ UNCHANGED <<execVars, svcVars>>
    /\ UNCHANGED <<queueVars, poolVars>>

\* ------------------------------------------------------------ ECRService

\* The servers whose builds reach the registry
Servers == {"s1", "s2"}

\* repoName := fmt.Sprintf("mcp-%s", serverID)
RepoName(serverID) == "mcp-" \o serverID

\* GetRepositoryURI: "%s.dkr.ecr.%s.amazonaws.com/%s" of accountID, region, repoName
GetRepositoryURI(accountID, region, repoName) ==
    accountID \o ".dkr.ecr." \o region \o ".amazonaws.com/" \o repoName

\* Mutant of Found: the answer of DescribeRepositories is not looked at
FoundNever(describeOk, exists) == FALSE

\* GetOrCreateRepository takes the repository as existing when
\* DescribeRepositories returned no error and a non-empty list
Found(describeOk, exists) == describeOk /\ exists

\* The registry before any call of this process: a repository may be left from
\* an earlier run
InitEcr ==
    /\ repos \in SUBSET {RepoName(s) : s \in Servers}
    /\ ecrCalls = <<>>

\* No registry call
NoEcr ==
    /\ repos = {}
    /\ ecrCalls = <<>>

\* GetOrCreateRepository(ctx, serverID): DescribeRepositories answers or fails;
\* unless the repository was found, CreateRepository is called, which the
\* registry rejects for a name that exists and which may fail otherwise
GetOrCreateRepository(serverID) ==
    /\ Len(ecrCalls) < MaxEcrCalls
    /\ \E describeOk \in BOOLEAN, createOk \in BOOLEAN :
         LET name == RepoName(serverID)
             exists == name \in repos
             found == Found(describeOk, exists)
             created == ~found /\ createOk /\ ~exists
         IN /\ repos' = IF created THEN repos \cup {name} ELSE repos
            /\ ecrCalls' = Append(ecrCalls,
                   [server |-> serverID, existed |-> exists, describeOk |-> describeOk,
                    createIssued |-> ~found, created |-> created,
                    name |-> IF found \/ created THEN name ELSE "",
                    err |-> ~(found \/ created)])
    /\ UNCHANGED <<pushIn, imageUri, regVars>>
    /\ UNCHANGED <<execVars, logVars>>
    /\ UNCHANGED <<queueVars, poolVars>>

\* ------------------------------------------------- the pushed image's URI

\* The length of the commit prefix used in the tag: job.CommitHash[:8]
HashPrefixLen == 8

HexDigits == <<"0", "1", "2", "3", "4", "5", "6", "7", "8", "9",
               "a", "b", "c", "d", "e", "f">>

\* Commit hashes of HashPrefixLen..MaxHashLen characters, as character sequences
CommitHashes ==
    {[i \in 1..n |-> HexDigits[((i * v) % 16) + 1]] :
        n \in HashPrefixLen..MaxHashLen, v \in {1, 3, 5}}

\* The string made of the characters of q
RECURSIVE Join(_)
Join(q) == IF q = <<>> THEN "" ELSE Head(q) \o Join(Tail(q))

\* The inputs of one build's registry stages: the ECRService's account and
\* region, and the job's server, branch and commit hash
PushInputs ==
    [account : {"111122223333", "444455556666"},
     region : {"us-east-1", "eu-west-1"},
     server : Servers,
     branch : {"main", "dev"},
     commit : CommitHashes]

\* stagePushImage: tags := {"<branch>-<CommitHash[:8]>", "latest"}
PushTags(j) ==
    <<j.branch \o "-" \o Join(SubSeq(j.commit, 1, HashPrefixLen)), "latest">>

\* Mutant of PrimaryTag: the last tag is the one returned
PrimaryTagLast(tags) == tags[Len(tags)]

\* PushImage reports the first tag: tags[0]
PrimaryTag(tags) == tags[1]

\* PushImage with a nil error: "<repoURI>:<tags[0]>", repoURI being
\* GetRepositoryURI(repoName)
PushImage(accountID, region, repoName, tags) ==
    GetRepositoryURI(accountID, region, repoName) \o ":" \o PrimaryTag(tags)

InitPush ==
    /\ pushIn \in PushInputs
    /\ imageUri = "none"

\* No build at the registry stages
NoPush ==
    /\ pushIn = [account |-> "111122223333", region |-> "us-east-1", server |-> "s1",
                 branch |-> "main", commit |-> [i \in 1..HashPrefixLen |-> "0"]]
    /\ imageUri = "none"

\* The registry stages of a build whose every stage succeeds: stageCreateECR
\* yields repoName, stagePushImage pushes under its tags, and ExecuteBuild
\* sets deployment.ImageURI to what PushImage returned before the final write
RecordImageUri ==
    /\ imageUri = "none"
    /\ imageUri' = PushImage(pushIn.account, pushIn.region, RepoName(pushIn.server),
                             PushTags(pushIn))
    /\ UNCHANGED <<repos, ecrCalls, pushIn, regVars>>
    /\ UNCHANGED <<execVars, logVars>>
    /\ UNCHANGED <<queueVars, poolVars>>

\* ------------------------------------------------------------ PushImage

\* The tag lists PushImage is called with: none, or the first tags of a list
\* that begins as stagePushImage's does (the commit tag, then latest)
TagLists == {SubSeq(<<"main-12345678", "latest", "extra1", "extra2">>, 1, n) : n \in 0..MaxTags}

\* The arguments of a PushImage call
PushArgSets == [tags : TagLists, imageName : {"", "s1:main-12345678"}, repoName : {"", "mcp-s1"}]

\* The registry's URI of a repository as the pushing ECRService forms it
PushRepoURI(repoName) == GetRepositoryURI("111122223333", "us-east-1", repoName)

\* No PushImage call under way
NoDocker ==
    /\ pushArgs = [b \in Builds |-> [tags |-> <<>>, imageName |-> "", repoName |-> ""]]
    /\ ppc = [b \in Builds |-> "idle"]
    /\ pidx = [b \in Builds |-> 0]
    /\ pops = [b \in Builds |-> <<>>]
    /\ pres = [b \in Builds |-> [uri |-> "", err |-> FALSE]]

\* PushImage is about to be called
InitDocker ==
    /\ pushArgs \in [Builds -> PushArgSets]
    /\ ppc = [b \in Builds |-> "start"]
    /\ pidx = [b \in Builds |-> 0]
    /\ pops = [b \in Builds |-> <<>>]
    /\ pres = [b \in Builds |-> [uri |-> "", err |-> FALSE]]

\* What PushImage returns on any failure: "", an error
PushFailed == [uri |-> "", err |-> TRUE]

\* Mutant of LoopDone: the loop is left after its first tag
LoopDoneAtFirst(i, tags) == TRUE

\* `for _, tag := range tags` has handled its last tag
LoopDone(i, tags) == i = Len(tags)

\* PushImage up to the tag loop: the argument checks, then loginToECR
PushLogin(b) ==
    /\ ppc[b] = "start"
    /\ IF \/ Len(pushArgs[b].tags) = 0
          \/ pushArgs[b].imageName = ""
          \/ pushArgs[b].repoName = ""
       THEN /\ pres' = [pres EXCEPT ![b] = PushFailed]
            /\ ppc' = [ppc EXCEPT ![b] = "returned"]
            /\ UNCHANGED <<pops, pidx>>
       ELSE \E ok \in BOOLEAN :
            /\ pops' = [pops EXCEPT ![b] = Append(@, [op |-> "login", tag |-> "", ok |-> ok])]
            /\ pres' = [pres EXCEPT ![b] = IF ok THEN @ ELSE PushFailed]
            /\ ppc' = [ppc EXCEPT ![b] = IF ok THEN "tagging" ELSE "returned"]
            /\ pidx' = [pidx EXCEPT ![b] = IF ok THEN 1 ELSE @]
    /\ UNCHANGED <<pushArgs, loginVars, raceVars>>
    /\ UNCHANGED <<repos, ecrCalls, pushIn, imageUri>>
    /\ UNCHANGED <<execVars, logVars>>
    /\ UNCHANGED <<queueVars, poolVars>>

\* One round of the first loop: docker tag <imageName> <repoURI>:<tag>
PushTag(b) ==
    /\ ppc[b] = "tagging"
    /\ \E ok \in BOOLEAN :
         /\ pops' = [pops EXCEPT ![b] =
                       Append(@, [op |-> "tag", tag |-> pushArgs[b].tags[pidx[b]], ok |-> ok])]
         /\ pres' = [pres EXCEPT ![b] = IF ok THEN @ ELSE PushFailed]
         /\ ppc' = [ppc EXCEPT ![b] =
                      IF ~ok THEN "returned"
                      ELSE IF LoopDone(pidx[b], pushArgs[b].tags) THEN "pushing" ELSE @]
         /\ pidx' = [pidx EXCEPT ![b] =
                       IF ~ok THEN @
                       ELSE IF LoopDone(pidx[b], pushArgs[b].tags) THEN 1 ELSE @ + 1]
    /\ UNCHANGED <<pushArgs, loginVars, raceVars>>
    /\ UNCHANGED <<repos, ecrCalls, pushIn, imageUri>>
    /\ UNCHANGED <<execVars, logVars>>
    /\ UNCHANGED <<queueVars, poolVars>>

\* One round of the second loop: docker push <repoURI>:<tag>; after the last
\* round PushImage returns "<repoURI>:<tags[0]>", nil
PushPush(b) ==
    /\ ppc[b] = "pushing"
    /\ \E ok \in BOOLEAN :
         /\ pops' = [pops EXCEPT ![b] =
                       Append(@, [op |-> "push", tag |-> pushArgs[b].tags[pidx[b]], ok |-> ok])]
         /\ pres' = [pres EXCEPT ![b] =
                       IF ~ok THEN PushFailed
                       ELSE IF LoopDone(pidx[b], pushArgs[b].tags)
                            THEN [uri |-> PushRepoURI(pushArgs[b].repoName) \o ":"
                                              \o PrimaryTag(pushArgs[b].tags),
                                  err |-> FALSE]
                            ELSE @]
         /\ ppc' = [ppc EXCEPT ![b] =
                      IF ~ok \/ LoopDone(pidx[b], pushArgs[b].tags) THEN "returned" ELSE @]
         /\ pidx' = [pidx EXCEPT ![b] =
                       IF ~ok \/ LoopDone(pidx[b], pushArgs[b].tags) THEN @ ELSE @ + 1]
    /\ UNCHANGED <<pushArgs, loginVars, raceVars>>
    /\ UNCHANGED <<repos, ecrCalls, pushIn, imageUri>>
    /\ UNCHANGED <<execVars, logVars>>
    /\ UNCHANGED <<queueVars, poolVars>>

\* ----------------------------------------------------------- loginToECR
\* Strings are sequences of byte values; a base64 text is the sequence of the
\* positions (0..63) of its characters in the standard alphabet, Pad being '='.

Colon == 58
Pad == 64

\* base64.StdEncoding.EncodeToString: 3 bytes give 4 characters; 1 or 2 bytes
\* left over give 2 or 3 characters and padding
RECURSIVE EncodeToString(_)
EncodeToString(q) ==
    IF Len(q) = 0 THEN <<>>
    ELSE IF Len(q) = 1
         THEN LET n == q[1] * 65536
              IN <<n \div 262144, (n \div 4096) % 64, Pad, Pad>>
    ELSE IF Len(q) = 2
         THEN LET n == q[1] * 65536 + q[2] * 256
              IN <<n \div 262144, (n \div 4096) % 64, (n \div 64) % 64, Pad>>
    ELSE LET n == q[1] * 65536 + q[2] * 256 + q[3]
         IN <<n \div 262144, (n \div 4096) % 64, (n \div 64) % 64, n % 64>>
                \o EncodeToString(SubSeq(q, 4, Len(q)))

\* base64.StdEncoding.DecodeString: groups of 4 characters, padding in the last
\* group only; anything else is a CorruptInputError
RECURSIVE DecodeString(_)
DecodeString(t) ==
    IF Len(t) = 0 THEN [ok |-> TRUE, bytes |-> <<>>]
    ELSE IF Len(t) < 4 \/ \E i \in 1..4 : t[i] \notin 0..Pad
         THEN [ok |-> FALSE, bytes |-> <<>>]
    ELSE IF t[1] = Pad \/ t[2] = Pad THEN [ok |-> FALSE, bytes |-> <<>>]
    ELSE IF t[3] = Pad
         THEN IF t[4] = Pad /\ Len(t) = 4
              THEN [ok |-> TRUE, bytes |-> <<(t[1] * 64 + t[2]) \div 16>>]
              ELSE [ok |-> FALSE, bytes |-> <<>>]
    ELSE IF t[4] = Pad
         THEN IF Len(t) = 4
              THEN LET n == t[1] * 4096 + t[2] * 64 + t[3]
                   IN [ok |-> TRUE, bytes |-> <<n \div 1024, (n \div 4) % 256>>]
              ELSE [ok |-> FALSE, bytes |-> <<>>]
    ELSE LET n == t[1] * 262144 + t[2] * 4096 + t[3] * 64 + t[4]
             rest == DecodeString(SubSeq(t, 5, Len(t)))
         IN [ok |-> rest.ok,
             bytes |-> IF rest.ok
                       THEN <<n \div 65536, (n \div 256) % 256, n % 256>> \o rest.bytes
                       ELSE <<>>]

\* strings.Split(s, ":"): the pieces between the colons, one more than colons
RECURSIVE StringsSplit(_)
StringsSplit(q) ==
    IF \A i \in 1..Len(q) : q[i] # Colon THEN <<q>>
    ELSE LET i == CHOOSE k \in 1..Len(q) :
                      q[k] = Colon /\ \A m \in 1..(k - 1) : q[m] # Colon
         IN <<SubSeq(q, 1, i - 1)>> \o StringsSplit(SubSeq(q, i + 1, Len(q)))

\* strings.Join(parts, ":")
RECURSIVE StringsJoin(_)
StringsJoin(parts) ==
    IF Len(parts) = 0 THEN <<>>
    ELSE IF Len(parts) = 1 THEN parts[1]
    ELSE parts[1] \o <<Colon>> \o StringsJoin(Tail(parts))

\* Mutant of Password: the piece after the first colon only
PasswordSecondPart(parts) == parts[2]

\* password := strings.Join(parts[1:], ":")
Password(parts) == StringsJoin(Tail(parts))

\* Strings of up to MaxCredLen characters over the given characters
StringsOver(chars) == UNION {[1..n -> chars] : n \in 0..MaxCredLen}

\* What GetAuthorizationToken answers: an error, no authorization data, or a
\* token: the encoding of "username:password" (username without colon), the
\* encoding of a text without colon, or a text that is not base64
AuthAnswers ==
    {[kind |-> "apiError", user |-> <<>>, pass |-> <<>>, token |-> <<>>],
     [kind |-> "noData", user |-> <<>>, pass |-> <<>>, token |-> <<>>],
     [kind |-> "notBase64", user |-> <<>>, pass |-> <<>>, token |-> <<16, 22, 20>>]}
    \cup {[kind |-> "credentials", user |-> u, pass |-> p,
           token |-> EncodeToString(u \o <<Colon>> \o p)] :
             u \in StringsOver({65, 119}), p \in StringsOver({112, Colon})}
    \cup {[kind |-> "noColon", user |-> u, pass |-> <<>>, token |-> EncodeToString(u)] :
             u \in StringsOver({65, 119})}

\* loginToECR has not run
NotLoggedIn == [done |-> FALSE, err |-> FALSE, ran |-> FALSE, username |-> <<>>, password |-> <<>>]

NoLogin ==
    /\ authIn = [kind |-> "noData", user |-> <<>>, pass |-> <<>>, token |-> <<>>]
    /\ loginOut = NotLoggedIn

InitLogin ==
    /\ authIn \in AuthAnswers
    /\ loginOut = NotLoggedIn

\* loginToECR: the token is fetched, decoded and split at its colons; with at
\* least two pieces docker login runs with the first piece as the user and
\* the rest joined as the password, and its failure is returned
LoginToECR ==
    /\ ~loginOut.done
    /\ LET decoded == DecodeString(authIn.token)
           parts == StringsSplit(decoded.bytes)
       IN IF \/ authIn.kind \in {"apiError", "noData"}
             \/ ~decoded.ok
             \/ Len(parts) < 2
          THEN loginOut' = [NotLoggedIn EXCEPT !.done = TRUE, !.err = TRUE]
          ELSE \E ok \in BOOLEAN :
                 loginOut' = [done |-> TRUE, err |-> ~ok, ran |-> TRUE,
                              username |-> parts[1], password |-> Password(parts)]
    /\ UNCHANGED authIn
    /\ UNCHANGED <<dockerVars, raceVars>>
    /\ UNCHANGED <<repos, ecrCalls, pushIn, imageUri>>
    /\ UNCHANGED <<execVars, logVars>>
    /\ UNCHANGED <<queueVars, poolVars>>

\* ------------------------------- GetOrCreateRepository of concurrent builds
\* Each worker's stageCreateECR calls GetOrCreateRepository on the one
\* ECRService; the call is two requests to the registry, DescribeRepositories
\* and CreateRepository, and nothing in the service serializes the calls.

NoRace ==
    /\ rserver = [b \in Builds |-> "s1"]
    /\ rpc = [b \in Builds |-> "idle"]
    /\ rfault = [b \in Builds |-> FALSE]
    /\ rres = [b \in Builds |-> [name |-> "", err |-> FALSE]]

InitRace ==
    /\ rserver \in [Builds -> Servers]
    /\ rpc = [b \in Builds |-> "start"]
    /\ rfault = [b \in Builds |-> FALSE]
    /\ rres = [b \in Builds |-> [name |-> "", err |-> FALSE]]

\* GetOrCreateRepository up to its first return: DescribeRepositories answers
\* or fails; a repository found is returned
EcrDescribe(b) ==
    /\ rpc[b] = "start"
    /\ \E describeOk \in BOOLEAN :
         LET name == RepoName(rserver[b])
             found == Found(describeOk, name \in repos)
         IN /\ rfault' = [rfault EXCEPT ![b] = ~describeOk]
            /\ rpc' = [rpc EXCEPT ![b] = IF found THEN "returned" ELSE "creating"]
            /\ rres' = [rres EXCEPT ![b] = IF found THEN [name |-> name, err |-> FALSE] ELSE @]
    /\ UNCHANGED <<rserver, repos, ecrCalls, pushIn, imageUri, dockerVars, loginVars>>
    /\ UNCHANGED <<execVars, logVars>>
    /\ UNCHANGED <<queueVars, poolVars>>

\* GetOrCreateRepository after a Describe that found nothing: CreateRepository,
\* which the registry rejects when the name exists by now; its error is returned
EcrCreate(b) ==
    /\ rpc[b] = "creating"
    /\ \E createOk \in BOOLEAN :
         LET name == RepoName(rserver[b])
             created == createOk /\ name \notin repos
         IN /\ repos' = IF created THEN repos \cup {name} ELSE repos
            /\ rfault' = [rfault EXCEPT ![b] = @ \/ ~createOk]
            /\ rres' = [rres EXCEPT ![b] =
                          IF created THEN [name |-> name, err |-> FALSE]
                          ELSE [name |-> "", err |-> TRUE]]
    /\ rpc' = [rpc EXCEPT ![b] = "returned"]
    /\ UNCHANGED <<rserver, ecrCalls, pushIn, imageUri, dockerVars, loginVars>>
    /\ UNCHANGED <<execVars, logVars>>
    /\ UNCHANGED <<queueVars, poolVars>>

\* No registry command under way
NoReg == NoDocker /\ NoLogin /\ NoRace

\* ====================================================== specifications

\* The registry stages are not under way
NoSvc == NoEcr /\ NoPush /\ NoReg

\* No build under way (the queue and the pool are checked with any handler):
\* the deployment table holds no row, nothing is loaded, written or run
NoBuild ==
    /\ bpc = [b \in Builds |-> "start"]
    /\ dep = <<>>
    /\ store = <<>>
    /\ ret = [b \in Builds |-> "none"]
    /\ job = [b \in Builds |-> [shortCommit |-> FALSE]]
    /\ workdir = [b \in Builds |-> "absent"]
    /\ issued = <<>>
    /\ ran = <<>>

Init == InitQueue /\ InitPool /\ NoBuild /\ NoLogs /\ NoSvc

\* The queue and the pool
Next ==
    \/ \E p \in Producers : EnqueueSend(p)
    \/ \E p \in Producers : EnqueuePanic(p)
    \/ \E p \in Producers : EnqueueClosed(p)
    \/ \E p \in Producers : EnqueuePark(p)
    \/ \E c \in Closers : CloseLock(c)
    \/ \E c \in Closers : CloseAlready(c)
    \/ \E c \in Closers : CloseDone(c)
    \/ \E c \in Closers : CloseJobs(c)
    \/ Start
    \/ \E w \in Workers : WorkerRecvJob(w)
    \/ \E w \in Workers : WorkerRecvClosed(w)
    \/ \E w \in Workers : WorkerStopSignal(w)
    \/ \E w \in Workers : WorkerPark(w)
    \/ \E w \in Workers : WorkerExit(w)
    \/ \E w \in Workers : HandlerReturn(w)
    \/ \E w \in Workers : HandlerPanic(w)
    \/ StopCall
    \/ StopReturn
    \/ WaitCall
    \/ WaitReturn

Spec == Init /\ [][Next]_vars

\* The queue and the pool as main uses them: Stop is never called and every
\* handler call returns
NextLive ==
    \/ \E p \in Producers : EnqueueSend(p)
    \/ \E p \in Producers : EnqueuePanic(p)
    \/ \E p \in Producers : EnqueueClosed(p)
    \/ \E p \in Producers : EnqueuePark(p)
    \/ \E c \in Closers : CloseLock(c)
    \/ \E c \in Closers : CloseAlready(c)
    \/ \E c \in Closers : CloseDone(c)
    \/ \E c \in Closers : CloseJobs(c)
    \/ Start
    \/ \E w \in Workers : WorkerRecvJob(w)
    \/ \E w \in Workers : WorkerRecvClosed(w)
    \/ \E w \in Workers : WorkerPark(w)
    \/ \E w \in Workers : WorkerExit(w)
    \/ \E w \in Workers : HandlerReturn(w)
    \/ WaitCall
    \/ WaitReturn

\* The Go scheduler runs every runnable goroutine: main reaches Start, a closer
\* that began Close finishes it, a worker that can take a step takes it, a
\* handler call returns, a Wait whose counter is zero returns
Fairness ==
    /\ WF_vars(Start)
    /\ \A c \in Closers : WF_vars(CloseAlready(c) \/ CloseDone(c) \/ CloseJobs(c))
    /\ \A w \in Workers : WF_vars(WorkerRecvJob(w) \/ WorkerRecvClosed(w) \/ WorkerExit(w))
    /\ \A w \in Workers : WF_vars(HandlerReturn(w))
    /\ WF_vars(WaitReturn)

SpecLive == Init /\ [][NextLive]_vars /\ Fairness

\* ExecuteBuild
NextBuild ==
    \/ \E b \in Builds : BuildInit(b)
    \/ \E b \in Builds : StageSucceed(b)
    \/ \E b \in Builds : StageFail(b)
    \/ \E b \in Builds : ImageNamePanic(b)
    \/ \E b \in Builds : Finalize(b)

InitB == InitQueue /\ InitPool /\ InitBuild /\ NoLogs /\ NoSvc

SpecBuild == InitB /\ [][NextBuild]_vars

\* A build is initiated on a record whatever its status (InitiateBuild checks the
\* owner only): the record is fresh or as an earlier completed run of the same
\* deployment left it (builds being interchangeable, the records of earlier
\* runs are taken to be those of the first builds)
InitRerun ==
    /\ bpc = [b \in Builds |-> "start"]
    /\ dep = [b \in Builds |-> NoRecord]
    /\ store \in {f \in [Builds -> {QueuedRecord, CompletedRecord}] :
                     \A b, c \in Builds :
                         (b < c /\ f[c] = CompletedRecord) => f[b] = CompletedRecord}
    /\ ret = [b \in Builds |-> "none"]
    /\ job = [b \in Builds |-> [shortCommit |-> FALSE]]
    /\ workdir = [b \in Builds |-> "absent"]
    /\ issued = [b \in Builds |-> NoRecord]
    /\ ran = [b \in Builds |-> <<>>]

InitR == InitQueue /\ InitPool /\ InitRerun /\ NoLogs /\ NoSvc

\* ExecuteBuild of jobs whose commit hash has its 8 characters (no slice panics)
NextRerun ==
    \/ \E b \in Builds : BuildInit(b)
    \/ \E b \in Builds : StageSucceed(b)
    \/ \E b \in Builds : StageFail(b)
    \/ \E b \in Builds : Finalize(b)

\* ExecuteBuild on fresh records and on records of an earlier run
SpecRerun == InitR /\ [][NextRerun]_vars

InitL == InitQueue /\ InitPool /\ NoBuild /\ InitLogs /\ NoSvc

\* GetLogsWithSizeLimit on the logs of a build
SpecLog == InitL /\ [][LoggerView]_vars

\* Builds running at the same time on the workers of the pool
NextShared ==
    \/ \E b \in Builds : ExecClear(b)
    \/ \E b \in Builds : ExecInitPersist(b)
    \/ \E b \in Builds : ExecLog(b)
    \/ \E b \in Builds : ExecMcpError(b)
    \/ \E b \in Builds : ExecPersist(b)

SpecShared == Init /\ [][NextShared]_vars

InitE == InitQueue /\ InitPool /\ NoBuild /\ NoLogs /\ InitEcr /\ NoPush /\ NoReg

\* Sequential calls of GetOrCreateRepository
NextEcr == \E s \in Servers : GetOrCreateRepository(s)

SpecEcr == InitE /\ [][NextEcr]_vars

InitU == InitQueue /\ InitPool /\ NoBuild /\ NoLogs /\ NoEcr /\ InitPush /\ NoReg

\* The image URI a fully successful build records, over jobs and registries
SpecUri == InitU /\ [][RecordImageUri]_vars

InitP == InitQueue /\ InitPool /\ NoBuild /\ NoLogs /\ NoEcr /\ NoPush /\ InitDocker /\ NoLogin /\ NoRace

\* PushImage calls, one per build
NextPush ==
    \/ \E b \in Builds : PushLogin(b)
    \/ \E b \in Builds : PushTag(b)
    \/ \E b \in Builds : PushPush(b)

SpecPush == InitP /\ [][NextPush]_vars

InitA == InitQueue /\ InitPool /\ NoBuild /\ NoLogs /\ NoEcr /\ NoPush /\ NoDocker /\ InitLogin /\ NoRace

\* loginToECR over the answers of GetAuthorizationToken
SpecLogin == InitA /\ [][LoginToECR]_vars

InitC == InitQueue /\ InitPool /\ NoBuild /\ NoLogs /\ InitEcr /\ NoPush /\ NoDocker
             /\ NoLogin /\ InitRace

\* The create-registry stages of builds running on different workers
NextRace ==
    \/ \E b \in Builds : EcrDescribe(b)
    \/ \E b \in Builds : EcrCreate(b)

SpecRace == InitC /\ [][NextRace]_vars

\* ============================================================== claims

\* The jobs that have left the channel, in the order they left it
ReceivedJobs == [i \in 1..Len(received) |-> received[i][1]]

\* How many times job j was handed to a handler
Deliveries(j) == SetCard({i \in 1..Len(received) : received[i][1] = j})

\* Some worker's receive has reported the channel closed
ClosureReported == \E w \in Workers : wpc[w] = "sawClosed" \/ exitWhy[w] = "closed"

\* C1: with the pool started, Stop never called and handlers returning, every job
\* whose Enqueue returned nil is eventually handed to the handler, by one worker
\* and once, whether or not Close is called afterwards.
C1_AcceptedDeliveredOnce ==
    /\ [](\A j \in Producers : Deliveries(j) <= 1)
    /\ [](\A i \in 1..Len(received) : received[i][1] \in SeqToSet(accepted))
    /\ \A j \in Producers : (epc[j] = "nil") ~> (Deliveries(j) = 1)

\* C1 witness: all jobs were accepted, a Close has returned, each job was delivered
C1_Witness ==
    /\ \A j \in Producers : epc[j] = "nil" /\ Deliveries(j) = 1
    /\ CloseReturned
    /\ \E i, k \in 1..Len(received) : received[i][2] # received[k][2]

\* C2: jobs leave the channel in the order their sends succeeded, none is merged
\* or lost, and no receive reports closure while an accepted job is undelivered.
C2_FifoAndCloseLosesNothing ==
    /\ Len(received) <= Len(accepted)
    /\ ReceivedJobs = SubSeq(accepted, 1, Len(received))
    /\ jobs = SubSeq(accepted, Len(received) + 1, Len(accepted))
    /\ ClosureReported => ReceivedJobs = accepted

\* C2 witness: closure was reported after every job was accepted and delivered in
\* the order of acceptance, the deliveries being spread over different workers
C2_Witness ==
    /\ ClosureReported
    /\ Len(accepted) = NumJobs
    /\ ReceivedJobs = accepted
    /\ \E i, k \in 1..Len(received) : i < k /\ received[i][2] > received[k][2]

\* C3: an Enqueue made after Close has returned ends with ErrQueueClosed: it does
\* not return nil, add the job, block or panic.
C3_EnqueueAfterCloseReturnsErr ==
    \A p \in Producers : (afterClose[p] /\ epc[p] # "idle") => epc[p] = "closed"

\* C4: an Enqueue on a full queue parks (its job not added, no result) until a
\* worker takes a job, which admits its job, or the queue is closed; a producer
\* parked when Close runs gets ErrQueueClosed and its job is never added.
C4_FullQueueBlocksUntilRecvOrClose ==
    /\ [](\A p \in Producers : epc[p] = "parked" =>
            /\ Len(jobs) = QueueCap
            /\ ~doneClosed
            /\ p \notin SeqToSet(accepted))
    /\ [](\A p \in wokenByClose : epc[p] = "closed" /\ p \notin SeqToSet(accepted))
    /\ [][\A p \in Producers :
            /\ (epc[p] = "idle" /\ epc'[p] # "idle" /\ Len(jobs) = QueueCap /\ ~doneClosed)
                 => epc'[p] = "parked"
            /\ (epc[p] = "parked" /\ epc'[p] # "parked") =>
                 \/ /\ Len(received') = Len(received) + 1
                    /\ epc'[p] = "nil"
                    /\ jobs'[Len(jobs')] = p
                 \/ /\ ~doneClosed /\ doneClosed'
                    /\ epc'[p] = "closed"
                    /\ jobs' = jobs]_vars

\* C4 witness: a producer parked on the full queue was released by Close with
\* ErrQueueClosed, every other job having been accepted and one of them received
C4_Witness ==
    /\ \E p \in wokenByClose : epc[p] = "closed"
    /\ Len(accepted) = NumJobs - 1
    /\ Len(received) >= 1

\* C5: Close is idempotent: however many calls, in sequence or concurrently, no
\* call panics, each channel is closed once, and a call made after one has
\* returned changes nothing in the queue.
C5_CloseIdempotent ==
    /\ [](\A c \in Closers : cpc[c] # "panic")
    /\ [](closeOps.done <= 1 /\ closeOps.jobs <= 1)
    /\ []((\A c \in Closers : cpc[c] = "returned") => (doneClosed /\ jobsClosed /\ mu = 0))
    /\ [][(CloseReturned /\ cpc' # cpc) =>
            UNCHANGED <<jobs, jobsClosed, doneClosed, sendq, recvq, epc, closeOps>>]_vars

\* C5 witness: every closer's Close has returned
C5_Witness == \A c \in Closers : cpc[c] = "returned"

\* The workers still in the pool's loop (not exited, not ended by a panic)
LiveWorkers == {w \in Workers : wpc[w] \in {"spawned", "select", "parked", "handling"}}

\* C6: graceful shutdown: Wait returns only when every worker has exited; a worker
\* leaves only with no job in hand, the queue closed and nothing buffered; so Wait
\* returns only after the handler of every accepted job has returned; and once
\* the queue is closed a pending Wait does return.
C6_GracefulShutdown ==
    /\ [](waitpc = "returned" => \A w \in Workers : wpc[w] = "exited")
    /\ [](\A w \in Workers : wpc[w] \in {"sawClosed", "exited"} =>
            (wjob[w] = 0 /\ jobsClosed /\ jobs = <<>>))
    /\ [](waitpc = "returned" => SeqToSet(accepted) \subseteq finished)
    /\ (waitpc = "waiting" /\ jobsClosed) ~> (waitpc = "returned")

\* C6 witness: Wait has returned after jobs that were buffered at Close were handled
C6_Witness ==
    /\ waitpc = "returned"
    /\ Len(accepted) = NumJobs
    /\ SeqToSet(accepted) \subseteq finished

\* C7: a handler call that returns an error leaves its worker in the loop, at the
\* select again, and changes no other worker nor the number of live workers.
C7_HandlerErrorKeepsWorker ==
    [][\A w \in Workers :
         (wpc[w] = "handling" /\ wjob'[w] = 0 /\ hres'[w] = "err") =>
           /\ wpc'[w] = "select"
           /\ \A v \in Workers \ {w} : wpc'[v] = wpc[v]
           /\ LiveWorkers' = LiveWorkers
           /\ wg' = wg]_vars

\* C7 witness: a worker whose last handler call returned an error runs the handler
\* on a later job
C7_Witness ==
    \E w \in Workers : hres[w] = "err" /\ wpc[w] = "handling" /\ wjob[w] # 0

\* C8: a panic inside the handler ends at most the worker that ran it: no other
\* worker is ended by it.
C8_PanicEndsOnlyItsWorker ==
    \A w \in Workers : wpc[w] = "panicked" => \A v \in Workers \ {w} : wpc[v] # "killed"

\* C9: a stage's status moves pending -> in_progress -> (completed | failed): it
\* does not leave pending for completed or failed, and does not return to pending.
C9_StageTransitionsMonotonic ==
    [][\A b \in Builds : \A s \in StageNames :
         /\ dep[b].Stages[s] = "pending" => dep'[b].Stages[s] \in {"pending", "in_progress"}
         /\ dep[b].Stages[s] = "in_progress" =>
              dep'[b].Stages[s] \in {"in_progress", "completed", "failed"}
         /\ dep[b].Stages[s] \in {"completed", "failed"} =>
              dep'[b].Stages[s] = dep[b].Stages[s]]_vars

\* A deployment (in memory or persisted) with a failed stage has status failed,
\* every later stage pending and no image URI
FailedStageSound(d) ==
    \A s \in StageNames : d.Stages[s] = "failed" =>
        /\ d.Status = "failed"
        /\ d.ImageURI = ""
        /\ \A t \in StageNames : StageIdx(t) > StageIdx(s) => d.Stages[t] = "pending"

CompletedSound(d) ==
    d.Status = "completed" =>
        /\ \A s \in StageNames : d.Stages[s] = "completed"
        /\ d.ImageURI # ""

\* C11: whenever a deployment's status is completed, in memory or persisted, all
\* six stages are completed and the image URI is non-empty.
C11_CompletedHasAllStagesAndUri ==
    \A b \in Builds : CompletedSound(dep[b]) /\ CompletedSound(store[b])

\* C11 witness: ExecuteBuild returned nil and its final write
\* persisted the completed status
C11_Witness ==
    \E b \in Builds :
        /\ ret[b] = "nil"
        /\ dep[b].Status = "completed"
        /\ store[b] = dep[b]

\* A deployment carries an image URI only with all six stages completed
UriSound(d) == d.ImageURI # "" => \A s \in StageNames : d.Stages[s] = "completed"

\* C12: in every snapshot ExecuteBuild writes, the image URI is non-empty only if
\* every stage is completed, also when the record carries the URI of an earlier run.
C12_ImageUriOnlyWhenAllCompleted ==
    \A b \in Builds : UriSound(store[b])

\* The stages of a deployment that are in_progress
RunningStages(d) == {s \in StageNames : d.Stages[s] = "in_progress"}

\* C13: at every instant of a build, in memory and as persisted, at most one stage
\* has status in_progress.
C13_AtMostOneStageInProgress ==
    \A b \in Builds :
        /\ SetCard(RunningStages(dep[b])) <= 1
        /\ SetCard(RunningStages(store[b])) <= 1

\* C13 witness: a build under way, its status in_progress, with stages already
\* completed and stages still to run, the record written
C13_Witness ==
    \E b \in Builds :
        /\ bpc[b] = "build_image"
        /\ dep[b].Status = "in_progress"
        /\ dep[b].Stages["validate_docker"] = "completed"
        /\ dep[b].Stages["build_image"] = "pending"
        /\ store[b] = dep[b]

\* C14: after ExecuteBuild returns nil the working directory does not exist.
C14_WorkdirGoneAfterSuccess ==
    \A b \in Builds : ret[b] = "nil" => workdir[b] = "absent"

\* C14 witness: ExecuteBuild returned nil on a build whose clone stage had made the
\* directory, and the directory is gone
C14_Witness ==
    \E b \in Builds :
        /\ ret[b] = "nil"
        /\ bpc[b] = "returned"
        /\ dep[b].Stages["clone"] = "completed"
        /\ workdir[b] = "absent"

\* C15: on every other exit path too, an error returned from any stage or a
\* panic, the working directory does not exist once ExecuteBuild is left.
C15_WorkdirGoneOnEveryExit ==
    \A b \in Builds : bpc[b] \in {"returned", "panicked"} => workdir[b] = "absent"

\* C16: a job whose commit hash is shorter than 8 characters is rejected before
\* stage 1: ExecuteBuild returns a validation error, no stage runs, no working
\* directory is made and nothing panics.
C16_ShortCommitRejectedAtEntry ==
    \A b \in Builds : job[b].shortCommit =>
        /\ bpc[b] # "panicked"
        /\ dep[b].Stages["clone"] \notin {"completed", "failed"}
        /\ workdir[b] = "absent"

RECURSIVE EstimatedSize(_)
\* The estimated size of a sequence of entries: the sum of 135 + len(message)
EstimatedSize(l) == IF l = <<>> THEN 0 ELSE EntrySize(Head(l)) + EstimatedSize(Tail(l))

\* C17: the estimated size of every log view GetLogsWithSizeLimit returns, the
\* truncation notice included, is at most LogSizeLimit.
C17_ViewWithinBudget == viewed => EstimatedSize(view) <= LogSizeLimit

\* The number of leading entries of l that fit in LogSizeLimit together
FittingPrefix(l) ==
    CHOOSE k \in 0..Len(l) :
        /\ EstimatedSize(SubSeq(l, 1, k)) <= LogSizeLimit
        /\ k < Len(l) => EstimatedSize(SubSeq(l, 1, k + 1)) > LogSizeLimit

KeptEntries(v) == SelectSeq(v, LAMBDA e : e # TruncationNotice)

\* C19: when the logs exceed the limit the persisted view keeps the latest entries
\* and drops the oldest ones.
C19_KeepsLatestEntries ==
    viewed =>
        KeptEntries(view) =
            SubSeq(logs, Len(logs) - Len(KeptEntries(view)) + 1, Len(logs))

\* C20: with builds running concurrently, the logs written to a build's record
\* are the entries its own ExecuteBuild has logged so far: none of another build,
\* and none lost because another build started and cleared the log.
C20_BuildLogsAreOwn ==
    \A b \in Builds : lpc[b] \in {"stage", "returned"} => blogs[b] = appended[b]

-----------------------------------------------------------------------------
\* Error handling of ExecuteBuild

\* C21: when every stage succeeded and the final deployment write (status
\* completed, imageUri) failed, ExecuteBuild returns that write's error and
\* not nil; it returns nil only when the final write reached the store.
C21_FinalWriteFailureReturned ==
    \A b \in Builds :
        /\ (bpc[b] = "returned" /\ dep[b].Status = "completed" /\ store[b] # dep[b])
               => ret[b] = "update_error"
        /\ ret[b] = "nil" => store[b] = dep[b]

\* Every stage succeeded, the final write failed and its error was returned
C21_Witness ==
    \E b \in Builds :
        /\ bpc[b] = "returned" /\ ret[b] = "update_error"
        /\ dep[b].Status = "completed"
        /\ \A s \in StageNames : dep[b].Stages[s] = "completed"
        /\ store[b].Status # "completed"

\* C22: a failed write that is not the final write is ignored, so the only
\* write whose error ExecuteBuild returns is the final one (issued with
\* status completed).
C22_OnlyFinalWriteErrorReturned ==
    \A b \in Builds : ret[b] = "update_error" => dep[b].Status = "completed"

\* C23: when a stage failed, ExecuteBuild returns that stage's error, the
\* failed stage's Error holds the same text, in memory and in every written
\* record, and no other stage has an Error.
C23_StageErrorSurfaced ==
    \A b \in Builds : \A s \in StageNames :
        /\ (bpc[b] = "returned" /\ dep[b].Stages[s] = "failed")
               => /\ ret[b] = StageError(s)
                  /\ dep[b].Errors[s] = ret[b]
                  /\ \A t \in StageNames \ {s} : dep[b].Errors[t] = ""
        /\ store[b].Stages[s] = "failed"
               => /\ store[b].Errors[s] = StageError(s)
                  /\ \A t \in StageNames \ {s} : store[b].Errors[t] = ""
        /\ store[b].Stages[s] # "failed" => store[b].Errors[s] = ""

\* A later stage failed after earlier ones completed, and the failure was written
C23_Witness ==
    \E b \in Builds :
        /\ bpc[b] = "returned" /\ ret[b] = StageError("build_image")
        /\ dep[b].Stages["clone"] = "completed"
        /\ store[b].Stages["build_image"] = "failed"
        /\ store[b].Errors["build_image"] = ret[b]

-----------------------------------------------------------------------------
\* Order of the stages and of the record writes

\* The order of the stages as the pipeline is documented to run them
DocumentedOrder ==
    <<"clone", "validate_config", "validate_docker", "build_image",
      "create_ecr", "push_image">>

\* C29: the stages whose work was started are a prefix of clone,
\* validate_config, validate_docker, build_image, create_ecr, push_image; every
\* stage before the last one started is completed; a failed stage is the last
\* one started, so no later stage's work runs after the first failure.
C29_StagesInOrderUntilFailure ==
    \A b \in Builds :
        /\ Len(ran[b]) <= Len(DocumentedOrder)
        /\ ran[b] = SubSeq(DocumentedOrder, 1, Len(ran[b]))
        /\ \A i \in 1..(Len(ran[b]) - 1) : dep[b].Stages[ran[b][i]] = "completed"
        /\ \A s \in StageNames :
               dep[b].Stages[s] = "failed" => (ran[b] # <<>> /\ ran[b][Len(ran[b])] = s)
        /\ \A s \in StageNames :
               dep[b].Stages[s] \in {"completed", "failed"}
                   => \E i \in 1..Len(ran[b]) : ran[b][i] = s

\* A build ran three stages, the third failed, and it returned
C29_Witness ==
    \E b \in Builds :
        /\ bpc[b] = "returned"
        /\ ran[b] = <<"clone", "validate_config", "validate_docker">>
        /\ dep[b].Stages["validate_docker"] = "failed"
        /\ dep[b].Stages["build_image"] = "pending"

\* The stages before position pos (all of them once the build is past them)
StagesBefore(pos) ==
    IF pos \in StageNames THEN {s \in StageNames : StageIdx(s) < StageIdx(pos)}
    ELSE StageNames

\* Before the work of a stage begins, the deployment as it stands (status
\* in_progress, every earlier stage completed, the stages initialized before
\* clone) has been handed to updateDeployment; so has a failed stage's outcome
\* when the build returns.
WriteIssuedBeforeNextStage ==
    \A b \in Builds :
        /\ bpc[b] \in StageNames \cup {"finalize"}
               => /\ issued[b] = dep[b]
                  /\ issued[b].Status = "in_progress"
                  /\ \A s \in StagesBefore(bpc[b]) : issued[b].Stages[s] = "completed"
                  /\ \A s \in StageNames \ StagesBefore(bpc[b]) :
                         issued[b].Stages[s] = "pending"
        /\ \A s \in StageNames :
               dep[b].Stages[s] = "failed" => issued[b].Stages[s] = "failed"

\* Entry e is one of the entries of the sequence q
InSeq(e, q) == \E k \in 1..Len(q) : q[k] = e

\* C30: progress is persisted after each transition and before the next stage:
\* the write issued by markStageCompleted / markStageFailed carries every log
\* entry the build has appended so far.
C30_WriteCarriesLogsSoFar ==
    [][\A b \in Builds :
          (lpc[b] = "mark" /\ lpc'[b] # "mark")
              => \A i \in 1..Len(appended[b]) : InSeq(appended[b][i], blogs'[b])]_vars

-----------------------------------------------------------------------------
\* The secondary write of the registry stage

\* C24: when updating the MCP server record failed after the repository was
\* ensured, the build goes on, and once it has returned the logs persisted in
\* its record contain the create_ecr entry reporting the failed update.
C24_McpFailureEntryPersisted ==
    \A b \in Builds :
        (lpc[b] = "returned" /\ mcpEntry[b] # 0)
            => InSeq(appended[b][mcpEntry[b]], blogs[b])

-----------------------------------------------------------------------------
\* Shutdown and back-pressure

\* C26: once the shutdown signal has been handled (the signal goroutine has
\* closed the queue), every build still in flight has a cancelled context.
C26_ShutdownCancelsBuilds ==
    \A w \in Workers : (jobsClosed /\ wpc[w] = "handling") => CtxDone

\* C28: a build submitted while the queue is full does not wait: no caller of
\* Enqueue is ever parked on the full channel (it is answered 429 and its job
\* is not enqueued).
C28_FullQueueRejects ==
    \A p \in Producers : epc[p] # "parked"

-----------------------------------------------------------------------------
\* The registry

\* C25: GetOrCreateRepository is idempotent: calls for the same server that
\* return without error return the same name, "mcp-<serverId>"; a call that
\* finds the repository (DescribeRepositories answers and it exists) returns
\* it and issues no CreateRepository; a later successful call after a
\* successful one issues no create; at most one repository is created per
\* server.
C25_EnsureRepositoryIdempotent ==
    /\ \A i \in 1..Len(ecrCalls) :
          LET c == ecrCalls[i] IN
          /\ ~c.err => c.name = "mcp-" \o c.server
          /\ (c.existed /\ c.describeOk) => (~c.err /\ ~c.createIssued)
    /\ \A i, k \in 1..Len(ecrCalls) :
          (i < k /\ ecrCalls[i].server = ecrCalls[k].server
                 /\ ~ecrCalls[i].err /\ ~ecrCalls[k].err)
              => /\ ecrCalls[k].name = ecrCalls[i].name
                 /\ ~ecrCalls[k].createIssued
    /\ \A s \in Servers :
          Cardinality({i \in 1..Len(ecrCalls) :
                          ecrCalls[i].server = s /\ ecrCalls[i].created}) <= 1

\* The first call created the repository, the second call for the same server
\* found it and returned the same name without a create
C25_Witness ==
    /\ Len(ecrCalls) >= 2
    /\ ecrCalls[1].server = ecrCalls[2].server
    /\ ecrCalls[1].created
    /\ ~ecrCalls[2].err /\ ~ecrCalls[2].createIssued
    /\ ecrCalls[2].name = ecrCalls[1].name
    /\ repos = {ecrCalls[1].name}

\* C27: the ImageURI a fully successful build persists is
\* <accountId>.dkr.ecr.<region>.amazonaws.com/mcp-<serverId>:<branch>-<first 8
\* characters of the commit hash>: GetRepositoryURI("mcp-" + serverId)
\* followed by the first tag, never by latest.
C27_ImageUriIsFirstTagReference ==
    imageUri # "none" =>
        LET first8 == Join([i \in 1..8 |-> pushIn.commit[i]])
            repoUri == pushIn.account \o ".dkr.ecr." \o pushIn.region
                           \o ".amazonaws.com/mcp-" \o pushIn.server
        IN /\ imageUri = repoUri \o ":" \o pushIn.branch \o "-" \o first8
           /\ imageUri # repoUri \o ":latest"
           /\ repoUri = GetRepositoryURI(pushIn.account, pushIn.region, "mcp-" \o pushIn.server)

\* A build of a commit hash longer than 8 characters recorded its image URI
C27_Witness ==
    /\ Len(pushIn.commit) > 8
    /\ imageUri = "444455556666.dkr.ecr.eu-west-1.amazonaws.com/mcp-s2:dev-12345678"

-----------------------------------------------------------------------------
\* Frame and status of an execution

C32_TimestampsFollowProgress ==
    \A b \in Builds : \A s \in StageNames :
        /\ store[b].Stages[s] = "pending"
               => (s \notin store[b].StartedAt /\ s \notin store[b].CompletedAt)
        /\ store[b].Stages[s] \in {"completed", "failed"}
               => (s \in store[b].StartedAt /\ s \in store[b].CompletedAt)

-----------------------------------------------------------------------------
\* PushImage and loginToECR

\* The commands a complete PushImage of the given tags runs: login, a docker
\* tag per tag, then a docker push per tag
ExpectedOps(tags) ==
    <<[op |-> "login", tag |-> ""]>>
        \o [i \in 1..Len(tags) |-> [op |-> "tag", tag |-> tags[i]]]
        \o [i \in 1..Len(tags) |-> [op |-> "push", tag |-> tags[i]]]

\* C33: PushImage logs in, then tags every tag, then pushes every tag: the
\* commands run are a prefix of that sequence (no tag or push without a
\* successful login, no push before every tag is applied); a failed command is
\* the last one run and makes PushImage return an error with an empty URI; a
\* nil error is returned only after the whole sequence succeeded.
C33_LoginTagPushInOrder ==
    \A b \in Builds :
        LET ops == pops[b]
            want == ExpectedOps(pushArgs[b].tags)
        IN /\ Len(ops) <= Len(want)
           /\ \A i \in 1..Len(ops) :
                 /\ ops[i].op = want[i].op /\ ops[i].tag = want[i].tag
                 /\ ~ops[i].ok => (i = Len(ops) /\ ppc[b] = "returned" /\ pres[b].err)
           /\ pres[b].err => (pres[b].uri = "" /\ ppc[b] = "returned")
           /\ (ppc[b] = "returned" /\ ~pres[b].err)
                 => /\ Len(ops) = Len(want)
                    /\ \A i \in 1..Len(ops) : ops[i].ok
                    /\ pres[b].uri # ""

\* One call pushed both of its tags and returned; another failed at its second
\* docker tag and ran nothing after it
C33_Witness ==
    \E b, c \in Builds :
        /\ ppc[b] = "returned" /\ ~pres[b].err /\ Len(pushArgs[b].tags) = 2
        /\ Len(pops[b]) = 5
        /\ ppc[c] = "returned" /\ pres[c].err /\ Len(pops[c]) = 3
        /\ pops[c][3].op = "tag" /\ ~pops[c][3].ok

\* C34: credential parsing round-trips: for a token encoding
\* "username:password" (no colon in the username, any password), docker login
\* is run with exactly that username and that password; with a decoded token
\* without colon, no authorization data, or no token, loginToECR returns an
\* error and docker login is not run.
C34_CredentialsRoundTrip ==
    loginOut.done =>
        /\ authIn.kind = "credentials"
              => /\ loginOut.ran
                 /\ loginOut.username = authIn.user
                 /\ loginOut.password = authIn.pass
        /\ authIn.kind # "credentials" => (loginOut.err /\ ~loginOut.ran)

\* A token of 8 characters whose password begins with a colon went through
C34_Witness ==
    /\ loginOut.done /\ loginOut.ran /\ ~loginOut.err
    /\ authIn.user = <<65>>
    /\ loginOut.password = <<Colon, 112>>
    /\ Len(authIn.token) = 8

-----------------------------------------------------------------------------
\* Submission, resource bounds, Stop

\* C35: a submission whose Enqueue returned ErrQueueClosed is not answered
\* 202 "Build initiated successfully".
C35_ClosedQueueReported ==
    \A p \in Producers :
        epc[p] = "closed" => InitiateBuildAnswer(epc[p]) # "202 Build initiated successfully"

\* The handler invocations in progress: the jobs taken from the channel whose
\* handler has not returned
InProgress == {r[1] : r \in SeqToSet(received)} \ finished

\* C36: the jobs buffered never exceed the capacity given to NewJobQueue; with
\* the pool started once, at most NumWorkers handler invocations are in
\* progress, each worker runs at most one, and each is run by one worker.
C36_ResourceBounds ==
    /\ Len(jobs) <= QueueCap
    /\ ~crashed =>
          /\ Cardinality(InProgress) <= NumWorkers
          /\ \A j \in InProgress :
                Cardinality({w \in Workers : wpc[w] = "handling" /\ wjob[w] = j}) = 1
          /\ \A w \in Workers : wpc[w] = "handling" => wjob[w] \in InProgress
          /\ \A w \in Workers : wpc[w] # "handling" => wjob[w] = 0

\* Every worker runs a handler while an accepted job waits in the buffer
C36_Witness ==
    /\ ~crashed
    /\ Len(jobs) > 0
    /\ Cardinality(InProgress) = NumWorkers
    /\ \A w \in Workers : wpc[w] = "handling"

\* C37: when ExecuteBuild has returned after finding the record, the status in
\* memory and in the store is terminal: completed if it returned nil, failed
\* if it returned an error.
C37_TerminalStatusAtReturn ==
    \A b \in Builds :
        (bpc[b] = "returned" /\ ret[b] # "not_found")
            => IF ret[b] = "nil"
               THEN dep[b].Status = "completed" /\ store[b].Status = "completed"
               ELSE dep[b].Status = "failed" /\ store[b].Status = "failed"

C39_OneExecutionPerDeployment ==
    \A v, w \in Workers :
        (v # w /\ wpc[v] = "handling" /\ wpc[w] = "handling")
            => DeploymentOf(wjob[v]) # DeploymentOf(wjob[w])

\* C38: builds running concurrently all get through the create-registry
\* stage: a GetOrCreateRepository call whose own registry requests did not
\* fail returns no error, however the calls interleave.
C38_ConcurrentEnsureSucceeds ==
    \A b \in Builds : (rpc[b] = "returned" /\ ~rfault[b]) => ~rres[b].err
====
